---- MODULE Spec2Model ----
(***************************************************************************)
(* A model of ca_pmda: the DynamicModel view over an ElementTree node, the *)
(* dynamic_model factory, the filter expression compiler and the two       *)
(* operations of DynamicClient.                                            *)
(*                                                                         *)
(* Conventions.                                                            *)
(*  - A Python str that is text content, an XML attribute value or a       *)
(*    header value is a sequence of pieces whose concatenation is the      *)
(*    string. The pieces are single characters wherever the code looks     *)
(*    inside the string (str(), lower(), casefold(), startswith()); a      *)
(*    string that is only passed along, such as an operator name, is one   *)
(*    piece.                                                               *)
(*  - Tags, attribute names and field names are never converted by the     *)
(*    code, only compared; they are TLA+ strings.                          *)
(*  - An ElementTree element is an object with identity: the heap is a     *)
(*    sequence of elements and an element is referred to by its index.     *)
(*    Elements hold no parent pointer, a node may be the child of several  *)
(*    nodes (or of itself).                                                *)
(***************************************************************************)
EXTENDS Integers, Sequences, FiniteSets, TLC

VARIABLES heap, pre, last, ops, exprs, compiled, pc, call, response, sent, outcome,
          document, wrapped

vars == <<heap, pre, last, ops, exprs, compiled, pc, call, response, sent, outcome,
          document, wrapped>>

modelVars == <<heap, pre, last, ops>>
filterVars == <<exprs, compiled>>
clientVars == <<pc, call, response, sent, outcome, document, wrapped>>

----------------------------------------------------------------------------
(* Bounds *)

MaxNodes == 4
MaxFields == 2
MaxOps == 2
MaxBuilds == 2
MaxExprNodes == 4
MaxOperands == 2
MaxResponseChildren == 2
MaxInt == 11

----------------------------------------------------------------------------
(* Python values *)

Range(f) == {f[i] : i \in DOMAIN f}

\* One shape for every Python value the model handles.
\*   kind "None"                       None
\*   kind "str"    s                   text
\*   kind "int"    i                   integer
\*   kind "bool"   i \in {0, 1}        boolean (a bool is also an int)
\*   kind "float"  i                   real, i = number of tenths
\*   kind "model"  wid, doc            a DynamicModel instance wid wrapping element doc
\*   kind "tuple"  items               tuple of IsA(name, rootURL)
\*   kind "other"                      any other object (a list, a dict, ...)
Py(kind, i, s, wid, doc, items) ==
    [kind |-> kind, i |-> i, s |-> s, wid |-> wid, doc |-> doc, items |-> items]

PyNone == Py("None", 0, <<>>, 0, 0, <<>>)
PyStr(s) == Py("str", 0, s, 0, 0, <<>>)
PyInt(i) == Py("int", i, <<>>, 0, 0, <<>>)
PyBool(b) == Py("bool", IF b THEN 1 ELSE 0, <<>>, 0, 0, <<>>)
PyFloat(tenths) == Py("float", tenths, <<>>, 0, 0, <<>>)
PyTuple(items) == Py("tuple", 0, <<>>, 0, 0, items)
PyOther == Py("other", 0, <<>>, 0, 0, <<>>)

UpperChars == <<"A","B","C","D","E","F","G","H","I","J","K","L","M",
                "N","O","P","Q","R","S","T","U","V","W","X","Y","Z">>
LowerChars == <<"a","b","c","d","e","f","g","h","i","j","k","l","m",
                "n","o","p","q","r","s","t","u","v","w","x","y","z">>

LowerChar(c) ==
    IF \E k \in DOMAIN UpperChars : UpperChars[k] = c
    THEN LowerChars[CHOOSE k \in DOMAIN UpperChars : UpperChars[k] = c]
    ELSE c

\* str.lower() and, on the ASCII texts used here, str.casefold()
lower(s) == [k \in DOMAIN s |-> LowerChar(s[k])]

casefold(s) == lower(s)

startswith(s, prefix) ==
    /\ Len(prefix) <= Len(s)
    /\ SubSeq(s, 1, Len(prefix)) = prefix

Digits == <<"0","1","2","3","4","5","6","7","8","9">>

RECURSIVE NatStr(_)
NatStr(n) ==
    IF n < 10 THEN <<Digits[n + 1]>>
    ELSE NatStr(n \div 10) \o <<Digits[(n % 10) + 1]>>

\* str() of the builtin types
str(value) ==
    CASE value.kind = "bool" -> IF value.i = 1 THEN <<"T","r","u","e">>
                                ELSE <<"F","a","l","s","e">>
      [] value.kind = "int" -> IF value.i < 0 THEN <<"-">> \o NatStr(-value.i)
                               ELSE NatStr(value.i)
      [] value.kind = "float" ->
            LET a == IF value.i < 0 THEN -value.i ELSE value.i
            IN (IF value.i < 0 THEN <<"-">> ELSE <<>>)
               \o NatStr(a \div 10) \o <<".">> \o NatStr(a % 10)
      [] value.kind = "str" -> value.s
      [] OTHER -> <<"?">>

\* isinstance(value, t) for the builtin types: a bool is an instance of int
isinstance(value, types) ==
    \/ value.kind \in types
    \/ value.kind = "bool" /\ "int" \in types

_scalar_types == {"str", "int", "float", "bool"}

\* For comparison with _scalar_to_str: the (str, int, float) case tested before
\* the bool case, so that a bool is written as the int subclass it is
_scalar_to_str_int_first(value) ==
    IF isinstance(value, {"str", "int", "float"})
    THEN [exc |-> "", val |-> str(value)]
    ELSE IF isinstance(value, {"bool"})
    THEN [exc |-> "", val |-> lower(str(value))]
    ELSE [exc |-> "TypeError", val |-> <<>>]

\* _scalar_to_str: [exc, val]
_scalar_to_str(value) ==
    IF isinstance(value, {"bool"})
    THEN [exc |-> "", val |-> lower(str(value))]
    ELSE IF isinstance(value, {"str", "int", "float"})
    THEN [exc |-> "", val |-> str(value)]
    ELSE [exc |-> "TypeError", val |-> <<>>]

----------------------------------------------------------------------------
(* ElementTree elements *)

\* xml.etree.ElementTree.Element(tag, attrib): no text, no children
Element(tag, attrib) ==
    [tag |-> tag, attrib |-> attrib, text |-> PyNone, children |-> <<>>]

\* Element.get(key): the attribute's value or None
ElementGet(e, key) ==
    IF \E p \in e.attrib : p[1] = key
    THEN PyStr((CHOOSE p \in e.attrib : p[1] = key)[2])
    ELSE PyNone

\* Element.set(key, value)
ElementSet(e, key, value) ==
    [e EXCEPT !.attrib = {p \in e.attrib : p[1] # key} \cup {<<key, value>>}]

HasAttrib(e, key) == \E p \in e.attrib : p[1] = key

\* Element.find(tag): index of the first direct child with that tag, 0 if none
FindIndex(h, n, tag) ==
    LET kids == h[n].children
        hits == {k \in DOMAIN kids : h[kids[k]].tag = tag}
    IN IF hits = {} THEN 0
       ELSE CHOOSE k \in hits : \A j \in hits : k <= j

\* Element.find(tag): the first direct child with that tag, 0 (None) if none
find(h, n, tag) ==
    IF FindIndex(h, n, tag) = 0 THEN 0
    ELSE h[n].children[FindIndex(h, n, tag)]

RemoveAt(seq, k) == SubSeq(seq, 1, k - 1) \o SubSeq(seq, k + 1, Len(seq))

\* Element.remove(child): drops the first occurrence of that very element
remove(kids, child) ==
    LET hits == {k \in DOMAIN kids : kids[k] = child}
    IN RemoveAt(kids, CHOOSE k \in hits : \A j \in hits : k <= j)

----------------------------------------------------------------------------
(* DynamicModel *)

\* DynamicModel(doc): a new wrapper object (identity wid) holding a reference
\* to the element, never a copy of it.
DynamicModel(wid, doc) == Py("model", 0, <<>>, wid, doc, <<>>)

\* IsA(name, rootURL)
IsA(name, rootURL) == [name |-> name, rootURL |-> rootURL]

\* Element.findall(tag): the direct children with that tag, in document order
findall(h, n, tag) == SelectSeq(h[n].children, LAMBDA c : h[c].tag = tag)

\* Element.findall("./IsAlso/IsA")
RECURSIVE findall_IsAlso_IsA(_, _)
findall_IsAlso_IsA(h, outer) ==
    IF outer = <<>> THEN <<>>
    ELSE findall(h, Head(outer), "IsA") \o findall_IsAlso_IsA(h, Tail(outer))

\* the last direct child with that tag, 0 if none
find_last(h, n, tag) ==
    LET kids == h[n].children
        hits == {k \in DOMAIN kids : h[kids[k]].tag = tag}
    IN IF hits = {} THEN 0
       ELSE kids[CHOOSE k \in hits : \A j \in hits : k >= j]

\* For comparison with __getattr__: a lookup that takes the LAST child with
\* the tag where Element.find takes the first
__getattr__last(h, self, name, fresh) ==
    LET element == find_last(h, self.doc, name)
    IN IF element = 0
       THEN [exc |-> "AttributeError", val |-> PyNone]
       ELSE IF HasAttrib(h[element], "version")
       THEN [exc |-> "", val |-> DynamicModel(fresh, element)]
       ELSE [exc |-> "", val |-> h[element].text]

\* DynamicModel.__getattr__: [exc, val]; fresh is the identity of the wrapper
\* object that a complex attribute is returned in.
__getattr__(h, self, name, fresh) ==
    LET doc == h[self.doc]
        element == find(h, self.doc, name)
        isas == findall_IsAlso_IsA(h, findall(h, self.doc, "IsAlso"))
    IN IF name = "version"
       THEN [exc |-> "", val |-> ElementGet(doc, "version")]
       ELSE IF name = "IsAlso"
       THEN IF \E k \in DOMAIN isas :
                  ~HasAttrib(h[isas[k]], "name") \/ ~HasAttrib(h[isas[k]], "rootURL")
            THEN [exc |-> "KeyError", val |-> PyNone]
            ELSE [exc |-> "",
                  val |-> PyTuple([k \in DOMAIN isas |->
                             IsA(ElementGet(h[isas[k]], "name").s,
                                 ElementGet(h[isas[k]], "rootURL").s)])]
       ELSE IF element = 0
       THEN [exc |-> "AttributeError", val |-> PyNone]
       ELSE IF HasAttrib(h[element], "version")
       THEN [exc |-> "", val |-> DynamicModel(fresh, element)]
       ELSE [exc |-> "", val |-> h[element].text]

\* For comparison with __setattr__: the new value appended with no removal of
\* the child that holds the old one
__setattr__append(h, self, name, value) ==
    LET n == self.doc
        val_str == _scalar_to_str(value)
        new_element == Len(h) + 1
    IN IF name = "version"
       THEN IF ~isinstance(value, {"str"})
            THEN [exc |-> "TypeError", heap |-> h]
            ELSE [exc |-> "", heap |-> [h EXCEPT ![n] = ElementSet(h[n], "version", value.s)]]
       ELSE IF name = "IsAlso"
       THEN [exc |-> "AttributeError", heap |-> h]
       ELSE IF isinstance(value, _scalar_types)
       THEN [exc |-> val_str.exc,
             heap |-> Append([h EXCEPT ![n].children = Append(h[n].children, new_element)],
                             [Element(name, {}) EXCEPT !.text = PyStr(val_str.val)])]
       ELSE IF isinstance(value, {"model"})
       THEN IF name # h[value.doc].tag
            THEN [exc |-> "TypeError", heap |-> h]
            ELSE [exc |-> "",
                  heap |-> [h EXCEPT ![n].children = Append(h[n].children, value.doc)]]
       ELSE [exc |-> "TypeError", heap |-> h]

\* DynamicModel.__setattr__: [exc, heap]
__setattr__(h, self, name, value) ==
    LET n == self.doc
        old_element == find(h, n, name)
        h1 == IF old_element # 0
              THEN [h EXCEPT ![n].children = remove(h[n].children, old_element)]
              ELSE h
        val_str == _scalar_to_str(value)
        new_element == Len(h) + 1
    IN IF name = "version"
       THEN IF ~isinstance(value, {"str"})
            THEN [exc |-> "TypeError", heap |-> h]
            ELSE [exc |-> "", heap |-> [h EXCEPT ![n] = ElementSet(h[n], "version", value.s)]]
       ELSE IF name = "IsAlso"
       THEN [exc |-> "AttributeError", heap |-> h]
       ELSE IF isinstance(value, _scalar_types)
       THEN [exc |-> val_str.exc,
             heap |-> Append([h1 EXCEPT ![n].children = Append(h1[n].children, new_element)],
                             [Element(name, {}) EXCEPT !.text = PyStr(val_str.val)])]
       ELSE IF isinstance(value, {"model"})
       THEN IF name # h1[value.doc].tag
            THEN [exc |-> "TypeError", heap |-> h1]
            ELSE [exc |-> "",
                  heap |-> [h1 EXCEPT ![n].children = Append(h1[n].children, value.doc)]]
       ELSE [exc |-> "TypeError", heap |-> h1]

\* For comparison with __delattr__: a deletion that removes the LAST child
\* with the tag where the code removes the first
__delattr__last(h, self, name) ==
    LET n == self.doc
        element == find_last(h, n, name)
    IN IF element = 0
       THEN [exc |-> "AttributeError", heap |-> h]
       ELSE [exc |-> "", heap |-> [h EXCEPT ![n].children = remove(h[n].children, element)]]

\* DynamicModel.__delattr__: [exc, heap]
__delattr__(h, self, name) ==
    LET n == self.doc
        element == find(h, n, name)
    IN IF element = 0
       THEN [exc |-> "AttributeError", heap |-> h]
       ELSE [exc |-> "", heap |-> [h EXCEPT ![n].children = remove(h[n].children, element)]]

\* For comparison with ElementEq: an equality by content (tag, attributes,
\* text, children), which Element does NOT define
ElementEq_by_content(h, a, b) == h[a] = h[b]

\* a == b on two elements of the heap: Element defines no __eq__, so this is
\* object identity, whatever the elements hold
ElementEq(h, a, b) == a = b

\* hash(a) of an element of the heap: the default hash, derived from identity
ElementHash(h, a) == a

\* DynamicModel.__eq__
__eq__(h, self, value) ==
    IF isinstance(value, {"model"})
    THEN ElementEq(h, value.doc, self.doc)
    ELSE FALSE

\* DynamicModel.__hash__
__hash__(h, self) == ElementHash(h, self.doc)

\* For comparison with setattr_all: the items applied last to first, where
\* the code iterates attributes.items() in keyword order
RECURSIVE setattr_all_reversed(_, _, _)
setattr_all_reversed(h, model, attributes) ==
    IF attributes = <<>> THEN [exc |-> "", heap |-> h]
    ELSE LET k == Len(attributes)
             r == __setattr__(h, model, attributes[k].name, attributes[k].value)
         IN IF r.exc # "" THEN r
            ELSE setattr_all_reversed(r.heap, model, SubSeq(attributes, 1, k - 1))

\* the loop of dynamic_model: setattr(model, k, v) for each item in order
RECURSIVE setattr_all(_, _, _)
setattr_all(h, model, attributes) ==
    IF attributes = <<>> THEN [exc |-> "", heap |-> h]
    ELSE LET r == __setattr__(h, model, Head(attributes).name, Head(attributes).value)
         IN IF r.exc # "" THEN r
            ELSE setattr_all(r.heap, model, Tail(attributes))

\* dynamic_model: [exc, heap, val]. An exception leaves nothing behind that the
\* caller can reach: the new elements are dropped and no element that existed
\* before the call is written to.
dynamic_model(h, _type, version, attributes, fresh) ==
    LET element == Len(h) + 1
        model == DynamicModel(fresh, element)
        h0 == Append(h, Element(_type, {}))
        r1 == __setattr__(h0, model, "version", version)
        r2 == setattr_all(r1.heap, model, attributes)
    IN IF r1.exc # "" THEN [exc |-> r1.exc, heap |-> h, val |-> PyNone]
       ELSE IF r2.exc # "" THEN [exc |-> r2.exc, heap |-> h, val |-> PyNone]
       ELSE [exc |-> "", heap |-> r2.heap, val |-> model]

----------------------------------------------------------------------------
(* The DynamicModel state machine: a caller holding references to the       *)
(* elements of a parsed document and to the models it builds.               *)

Names == {"Foo", "Bar", "version", "IsAlso"}

TypeNames == {"P", "Foo"}

Version100 == <<"1", ".", "0", ".", "0">>

Scalars == {PyStr(<<"x">>), PyInt(4567), PyBool(TRUE)}

\* the shapes a child of a parsed resource document has
FooSimple == [Element("Foo", {}) EXCEPT !.text = PyStr(<<"x">>)]
FooComplex == Element("Foo", {<<"version", Version100>>})
BarSimple == [Element("Bar", {}) EXCEPT !.text = PyStr(<<"y">>)]

SeqsUpTo(S, n) == UNION {[1..k -> S] : k \in 0..n}

\* <P version="1.0.0"> with the given children, root at index 1
ParsedDocument(kids) ==
    << [Element("P", {<<"version", Version100>>})
           EXCEPT !.children = [k \in DOMAIN kids |-> k + 1]] >> \o kids

\* <P version="1.0.0"><IsAlso><IsA name="S" rootURL="p/s"/></IsAlso></P>
IsAlsoDocument ==
    << [Element("P", {<<"version", Version100>>}) EXCEPT !.children = <<2>>],
       [Element("IsAlso", {}) EXCEPT !.children = <<3>>],
       Element("IsA", {<<"name", <<"S">> >>, <<"rootURL", <<"p", "/", "s">> >>}) >>

\* The documents a model is first wrapped around, as parsed from a response.
\* A parsed document may repeat a tag among the children of one element.
InitDocuments ==
    { ParsedDocument(<<>>),
      ParsedDocument(<<FooSimple, BarSimple>>),
      ParsedDocument(<<FooComplex, BarSimple>>),
      ParsedDocument(<<FooSimple, FooComplex>>),
      ParsedDocument(<<FooComplex, FooSimple>>),
      ParsedDocument(<<FooComplex, FooComplex>>),
      IsAlsoDocument }

NoExprs == <<>>
NoCall == [op |-> "", service_uri |-> "", resource_id |-> ""]
NoResponse == [status_code |-> 0, headers |-> {}, children |-> 0, wellformed |-> TRUE]
NoDocument == <<>>

InitFilterVars ==
    /\ exprs = NoExprs
    /\ compiled = <<>>

InitClientVars ==
    /\ pc = "idle"
    /\ call = NoCall
    /\ response = NoResponse
    /\ sent = <<>>
    /\ outcome = ""
    /\ document = NoDocument
    /\ wrapped = 0

Op(op, self, name, value, exc, result) ==
    [op |-> op, self |-> self, name |-> name, value |-> value,
     version |-> PyNone, attributes |-> <<>>, exc |-> exc, result |-> result,
     hashes |-> <<0, 0>>, afterSet |-> FALSE]

Init ==
    /\ heap \in InitDocuments
    /\ pre = heap
    /\ last = Op("", PyNone, "", PyNone, "", PyNone)
    /\ ops = 0
    /\ InitFilterVars
    /\ InitClientVars

Nodes == 1..Len(heap)

\* The elements that the module hands out wrapped in a DynamicModel: the root of
\* a document (filtered_get_list, dynamic_model) and every element that carries
\* a version attribute (__getattr__). DynamicModel.__init__ is for the module's
\* own use.
Held == {n \in Nodes : n = 1 \/ HasAttrib(heap[n], "version")}

\* what a caller can assign: a scalar, a model it holds, or None
Values == Scalars \cup {DynamicModel(2, m) : m \in Held} \cup {PyNone}

\* getattr(model, name)
Getattr ==
    /\ ops < MaxOps
    /\ ops' = ops + 1
    /\ UNCHANGED <<filterVars, clientVars>>
    /\ \E n \in Held, name \in Names :
        LET self == DynamicModel(1, n)
            r == __getattr__(heap, self, name, 3)
        IN /\ last' = Op("Get", self, name, PyNone, r.exc, r.val)
           /\ pre' = heap
           /\ UNCHANGED heap

\* setattr(model, name, value)
Setattr ==
    /\ ops < MaxOps
    /\ ops' = ops + 1
    /\ UNCHANGED <<filterVars, clientVars>>
    /\ \E n \in Held, name \in Names, value \in Values :
        LET self == DynamicModel(1, n)
            r == __setattr__(heap, self, name, value)
        IN /\ Len(r.heap) <= MaxNodes
           /\ heap' = r.heap
           /\ pre' = heap
           /\ last' = Op("Set", self, name, value, r.exc, PyNone)

\* delattr(model, name)
Delattr ==
    /\ ops < MaxOps
    /\ ops' = ops + 1
    /\ UNCHANGED <<filterVars, clientVars>>
    /\ \E n \in Held, name \in Names :
        LET self == DynamicModel(1, n)
            r == __delattr__(heap, self, name)
        IN /\ heap' = r.heap
           /\ pre' = heap
           /\ last' = [Op("Delete", self, name, PyNone, r.exc, PyNone)
                          EXCEPT !.afterSet = /\ last.op = "Set"
                                              /\ last.exc = ""
                                              /\ isinstance(last.value, _scalar_types)
                                              /\ last.self = self
                                              /\ last.name = name]

\* a == b, hash(a), hash(b) for two wrapper objects a and b
Compare ==
    /\ ops < MaxOps
    /\ ops' = ops + 1
    /\ UNCHANGED <<filterVars, clientVars>>
    /\ \E n \in Held, b \in {DynamicModel(2, m) : m \in Held} \cup {PyNone} :
        LET a == DynamicModel(1, n)
        IN /\ last' = [Op("Compare", a, "", b, "", PyBool(__eq__(heap, a, b)))
                          EXCEPT !.hashes = <<__hash__(heap, a),
                                              IF b.kind = "model" THEN __hash__(heap, b)
                                              ELSE 0>>]
           /\ pre' = heap
           /\ UNCHANGED heap

FieldNames == {"Foo", "Bar"}

\* what a caller passes as a field of a new model
FieldValues == {PyInt(4567), PyStr(<<"x">>)} \cup {DynamicModel(2, m) : m \in Held}

Attributes ==
    {a \in SeqsUpTo([name : FieldNames, value : FieldValues], MaxFields) :
        \A j, k \in DOMAIN a : j # k => a[j].name # a[k].name}

\* the elements a call of dynamic_model creates: the root and one per scalar
NewElements(attributes) ==
    1 + Cardinality({k \in DOMAIN attributes :
                        isinstance(attributes[k].value, _scalar_types)})

\* dynamic_model(_type, version, **attributes)
Build ==
    /\ ops < MaxBuilds
    /\ ops' = ops + 1
    /\ UNCHANGED <<filterVars, clientVars>>
    /\ \E _type \in TypeNames, version \in {PyStr(Version100), PyInt(1)},
          attributes \in Attributes :
        LET r == dynamic_model(heap, _type, version, attributes, 1)
        IN /\ Len(heap) + NewElements(attributes) <= MaxNodes
           /\ heap' = r.heap
           /\ pre' = heap
           /\ last' = [Op("dynamic_model", PyNone, _type, PyNone, r.exc, r.val)
                          EXCEPT !.version = version, !.attributes = attributes]

Next ==
    \/ Getattr
    \/ Setattr
    \/ Delattr
    \/ Compare

Spec == Init /\ [][Next]_vars

\* Models made from scratch: no element exists before the first call.
InitBuild ==
    /\ heap = <<>>
    /\ pre = heap
    /\ last = Op("", PyNone, "", PyNone, "", PyNone)
    /\ ops = 0
    /\ InitFilterVars
    /\ InitClientVars

NextBuild ==
    \/ Build

SpecBuild == InitBuild /\ [][NextBuild]_vars

TypeOK ==
    /\ Len(heap) <= MaxNodes
    /\ Len(pre) <= Len(heap)
    /\ \A n \in Nodes : \A k \in DOMAIN heap[n].children : heap[n].children[k] \in Nodes

----------------------------------------------------------------------------
(* Properties of DynamicModel *)

SpecialNames == {"version", "IsAlso"}

\* the positions of the direct children of n tagged name, in heap h
Tagged(h, n, name) == {k \in DOMAIN h[n].children : h[h[n].children[k]].tag = name}

Min(S) == CHOOSE k \in S : \A j \in S : k <= j

\* the Get that immediately follows the last operation, on the same model and name
NextGet == __getattr__(heap, last.self, last.name, 3)

\* C1: assigning a nested model whose node's tag differs from the field name
\* fails with TypeError and leaves the parent node as it was (attributes,
\* children and their order).
C1_MismatchedSetLeavesParent ==
    ( /\ last.op = "Set"
      /\ last.name \notin SpecialNames
      /\ last.value.kind = "model"
      /\ pre[last.value.doc].tag # last.name )
    => ( /\ last.exc = "TypeError"
         /\ heap[last.self.doc] = pre[last.self.doc] )

\* C2: after a successful Set(name, v) of a scalar v on a non-special name, the
\* immediately following Get(name) returns the text encode(v): a str, never a
\* nested model.
C2_SetScalarThenGet ==
    ( /\ last.op = "Set"
      /\ last.name \notin SpecialNames
      /\ isinstance(last.value, _scalar_types)
      /\ last.exc = "" )
    => ( /\ NextGet.exc = ""
         /\ NextGet.val = PyStr(_scalar_to_str(last.value).val) )

\* C3: in every reachable state, for all elements n and m and wrappers A around
\* n and B around m (two distinct wrapper objects): A == B iff n and m are the
\* same element, not when they merely hold the same content; and A == B implies
\* hash(A) == hash(B). What the Compare operation returned says the same.
C3_EqualIffSameNode ==
    /\ \A n, m \in Nodes :
          LET A == DynamicModel(1, n)
              B == DynamicModel(2, m)
          IN /\ __eq__(heap, A, B) <=> n = m
             /\ __eq__(heap, A, B) => __hash__(heap, A) = __hash__(heap, B)
    /\ (last.op = "Compare" /\ last.value.kind = "model")
          => /\ last.result = PyBool(last.self.doc = last.value.doc)
             /\ last.result = PyBool(TRUE) => last.hashes[1] = last.hashes[2]

\* two distinct elements with the same content were compared, after a mutation
C3_Witness ==
    /\ last.op = "Compare"
    /\ last.value.kind = "model"
    /\ last.self.doc # last.value.doc
    /\ heap[last.self.doc] = heap[last.value.doc]
    /\ last.result = PyBool(FALSE)
    /\ heap # pre \/ ops >= 2

\* C4: after Set(name, scalar) succeeds and Delete(name) then succeeds, the
\* immediately following Get(name) fails with AttributeError.
C4_SetDeleteThenGet ==
    ( /\ last.op = "Delete"
      /\ last.name \notin SpecialNames
      /\ last.afterSet
      /\ last.exc = "" )
    => NextGet.exc = "AttributeError"

\* C8: Delete(name) removes the first direct child tagged name and nothing else
\* (tag, attributes, text and the other children in their order stay, as does
\* every other element); without such a child it fails with AttributeError and
\* changes nothing.
C8_DeleteFrame ==
    last.op = "Delete" =>
        LET n == last.self.doc
            hits == Tagged(pre, n, last.name)
        IN IF hits # {}
           THEN /\ last.exc = ""
                /\ heap[n].children = RemoveAt(pre[n].children, Min(hits))
                /\ heap[n].tag = pre[n].tag
                /\ heap[n].attrib = pre[n].attrib
                /\ heap[n].text = pre[n].text
                /\ Len(heap) = Len(pre)
                /\ \A m \in Nodes : m # n => heap[m] = pre[m]
           ELSE /\ last.exc = "AttributeError"
                /\ heap = pre

\* the first of two children with the deleted tag went, the second stayed
C8_Witness ==
    /\ last.op = "Delete"
    /\ last.exc = ""
    /\ Cardinality(Tagged(pre, last.self.doc, last.name)) = 2
    /\ Cardinality(Tagged(heap, last.self.doc, last.name)) = 1
    /\ pre[last.self.doc].children[1] # pre[last.self.doc].children[2]

\* C9: Get(name) on a non-special name is decided by the first direct child
\* tagged name: none, AttributeError; with a version attribute, a model around
\* that very child (equal to any other wrapper of it); without, the child's
\* text. Get changes no element.
C9_GetFirstChild ==
    (last.op = "Get" /\ last.name \notin SpecialNames) =>
        LET n == last.self.doc
            hits == Tagged(pre, n, last.name)
            c == pre[n].children[Min(hits)]
        IN /\ heap = pre
           /\ IF hits = {}
              THEN last.exc = "AttributeError"
              ELSE /\ last.exc = ""
                   /\ IF \E p \in pre[c].attrib : p[1] = "version"
                      THEN /\ last.result.kind = "model"
                           /\ last.result.doc = c
                           /\ __eq__(heap, last.result, DynamicModel(9, c))
                      ELSE last.result = pre[c].text

\* Get returned a model for the first of two children with the tag, the second
\* being a simple one
C9_Witness ==
    /\ last.op = "Get"
    /\ last.exc = ""
    /\ last.result.kind = "model"
    /\ Cardinality(Tagged(heap, last.self.doc, last.name)) = 2
    /\ \E k \in Tagged(heap, last.self.doc, last.name) :
          ~HasAttrib(heap[heap[last.self.doc].children[k]], "version")

\* C10: after Set(name, M) succeeds on P for a nested model M, the node of M
\* is itself a direct child of P's node and Get(name) on P returns a model
\* equal to M.
C10_SetModelThenGet ==
    ( /\ last.op = "Set"
      /\ last.name \notin SpecialNames
      /\ last.value.kind = "model"
      /\ last.exc = "" )
    => ( /\ last.value.doc \in Range(heap[last.self.doc].children)
         /\ NextGet.exc = ""
         /\ NextGet.val.kind = "model"
         /\ __eq__(heap, NextGet.val, last.value) )

----------------------------------------------------------------------------
(* Properties of dynamic_model *)

\* the text a scalar is expected to be stored as
ExpectedText(value) ==
    CASE value = PyInt(4567) -> <<"4", "5", "6", "7">>
      [] value = PyStr(<<"x">>) -> <<"x">>
      [] OTHER -> _scalar_to_str(value).val

\* C6: build(typeName, version, fields) with a text version and fields of
\* distinct non-special names, each a scalar or a nested model tagged with its
\* field name, returns a model whose node is tagged typeName, has the attribute
\* version and nothing else, and has one direct child per field in the order
\* given: for a scalar a new element tagged with the name, holding the encoded
\* text and no version attribute; for a nested model that model's own node.
C6_BuildShape ==
    ( /\ last.op = "dynamic_model"
      /\ last.version.kind = "str"
      /\ \A k \in DOMAIN last.attributes :
            LET f == last.attributes[k]
            IN /\ f.name \notin SpecialNames
               /\ \/ isinstance(f.value, _scalar_types)
                  \/ f.value.kind = "model" /\ pre[f.value.doc].tag = f.name )
    => ( /\ last.exc = ""
         /\ last.result.kind = "model"
         /\ LET root == heap[last.result.doc]
            IN /\ last.result.doc \notin DOMAIN pre
               /\ root.tag = last.name
               /\ root.attrib = {<<"version", last.version.s>>}
               /\ Len(root.children) = Len(last.attributes)
               /\ \A k \in DOMAIN last.attributes :
                     LET f == last.attributes[k]
                         c == root.children[k]
                     IN IF f.value.kind = "model"
                        THEN /\ c = f.value.doc
                             /\ heap[c] = pre[c]
                        ELSE /\ c \notin DOMAIN pre
                             /\ heap[c].tag = f.name
                             /\ heap[c].text = PyStr(ExpectedText(f.value))
                             /\ heap[c].attrib = {}
                             /\ heap[c].children = <<>> )

\* a model was built from a scalar field followed by a nested model
C6_Witness ==
    /\ last.op = "dynamic_model"
    /\ last.exc = ""
    /\ Len(last.attributes) = 2
    /\ isinstance(last.attributes[1].value, _scalar_types)
    /\ last.attributes[2].value.kind = "model"
    /\ Len(heap[last.result.doc].children) = 2

----------------------------------------------------------------------------
(* Filter expressions *)

\* AttributeComparison(prop_name, operator, prop_value, ignoreCase)
AttributeComparison(prop_name, operator, prop_value, ignoreCase) ==
    [cls |-> "AttributeComparison", prop_name |-> prop_name, operator |-> operator,
     prop_value |-> prop_value, ignoreCase |-> ignoreCase, operands |-> <<>>]

\* _Operator.__init__(*operands), for the subclass named cls
_Operator(cls, operands) ==
    [cls |-> cls, prop_name |-> "", operator |-> "", prop_value |-> PyNone,
     ignoreCase |-> FALSE, operands |-> operands]

\* Not.__init__(operand): exactly one operand
Not(operand) == _Operator("Not", <<operand>>)

And(operands) == _Operator("And", operands)

Or(operands) == _Operator("Or", operands)

\* An element made by the compiler is new and shared with nothing: it is a
\* value, its children are the elements themselves.
XmlElement(tag, attrib) ==
    [tag |-> tag, attrib |-> attrib, text |-> PyNone, children |-> <<>>]

\* For comparison with AttributeComparison__toxml__: the ignoreCase attribute
\* written whatever the flag is, where the code writes it only when it is set
AttributeComparison__toxml__always_flag(self) ==
    LET e == XmlElement(self.prop_name, {<<"type", <<self.operator>> >>})
        e1 == ElementSet(e, "ignoreCase", lower(str(PyBool(self.ignoreCase))))
        text == _scalar_to_str(self.prop_value)
    IN IF text.exc # "" THEN [exc |-> text.exc, val |-> e1]
       ELSE [exc |-> "", val |-> [e1 EXCEPT !.text = PyStr(text.val)]]

\* AttributeComparison.__toxml__: [exc, val]
AttributeComparison__toxml__(self) ==
    LET e == XmlElement(self.prop_name, {<<"type", <<self.operator>> >>})
        e1 == IF self.ignoreCase
              THEN ElementSet(e, "ignoreCase", <<"t", "r", "u", "e">>)
              ELSE e
        text == _scalar_to_str(self.prop_value)
    IN IF text.exc # "" THEN [exc |-> text.exc, val |-> e1]
       ELSE [exc |-> "", val |-> [e1 EXCEPT !.text = PyStr(text.val)]]

RECURSIVE __toxml__(_)
RECURSIVE append_operands(_, _)

\* the loop of _Operator.__toxml__: e.append(o.__toxml__()) for each operand
append_operands(e, operands) ==
    IF operands = <<>> THEN [exc |-> "", val |-> e]
    ELSE LET r == __toxml__(Head(operands))
         IN IF r.exc # "" THEN [exc |-> r.exc, val |-> e]
            ELSE append_operands([e EXCEPT !.children = Append(e.children, r.val)],
                                 Tail(operands))

\* _Operator.__toxml__: [exc, val]; type(self).__name__ is the class name
_Operator__toxml__(self) == append_operands(XmlElement(self.cls, {}), self.operands)

\* expr.__toxml__(): the method of the expression's class
__toxml__(self) ==
    IF self.cls = "AttributeComparison"
    THEN AttributeComparison__toxml__(self)
    ELSE _Operator__toxml__(self)

\* _filter_select: the document that is serialised as the request body
\* [exc, val]
_filter_select(filter) ==
    LET root == XmlElement("FilterSelect",
                   {<<"{http://www.w3.org/2001/XMLSchema-instance}noNamespaceSchemaLocation",
                      <<"filter.xsd">> >>})
        r == __toxml__(filter)
        filter_e == [XmlElement("Filter", {}) EXCEPT !.children = <<r.val>>]
    IN IF r.exc # "" THEN [exc |-> r.exc, val |-> root]
       ELSE [exc |-> "", val |-> [root EXCEPT !.children = <<filter_e>>]]

RECURSIVE Size(_)
RECURSIVE SizeAll(_)
Size(expr) == 1 + SizeAll(expr.operands)

SizeAll(es) == IF es = <<>> THEN 0 ELSE Size(Head(es)) + SizeAll(Tail(es))

\* the comparisons a caller writes; the last one holds a value that is no scalar
Leaves ==
    { AttributeComparison("A.B", "CONTAINS", PyStr(<<"x">>), FALSE),
      AttributeComparison("C.D", "LESS_OR_EQUAL", PyInt(789), FALSE),
      AttributeComparison("E.F", "EQUAL", PyBool(TRUE), TRUE),
      AttributeComparison("A.B", "IS_NULL", PyFloat(15), TRUE),
      AttributeComparison("G.H", "EQUAL", PyNone, FALSE) }

NotCompiled == <<>>

InitFilter ==
    /\ exprs = NoExprs
    /\ compiled = NotCompiled
    /\ heap = <<>>
    /\ pre = <<>>
    /\ last = Op("", PyNone, "", PyNone, "", PyNone)
    /\ ops = 0
    /\ InitClientVars

\* AttributeComparison(...): a new leaf
NewComparison ==
    /\ SizeAll(exprs) < MaxExprNodes
    /\ \E leaf \in Leaves : exprs' = Append(exprs, leaf)
    /\ compiled' = NotCompiled
    /\ UNCHANGED <<modelVars, clientVars>>

\* the last k expressions the caller made, in the order they were made
LastK(k) == SubSeq(exprs, Len(exprs) - k + 1, Len(exprs))

ButLastK(k) == SubSeq(exprs, 1, Len(exprs) - k)

\* Not(operand)
NewNot ==
    /\ SizeAll(exprs) < MaxExprNodes
    /\ Len(exprs) >= 1
    /\ exprs' = Append(ButLastK(1), Not(exprs[Len(exprs)]))
    /\ compiled' = NotCompiled
    /\ UNCHANGED <<modelVars, clientVars>>

\* And(*operands)
NewAnd ==
    /\ SizeAll(exprs) < MaxExprNodes
    /\ \E k \in 0..MaxOperands :
          /\ k <= Len(exprs)
          /\ exprs' = Append(ButLastK(k), And(LastK(k)))
    /\ compiled' = NotCompiled
    /\ UNCHANGED <<modelVars, clientVars>>

\* Or(*operands)
NewOr ==
    /\ SizeAll(exprs) < MaxExprNodes
    /\ \E k \in 0..MaxOperands :
          /\ k <= Len(exprs)
          /\ exprs' = Append(ButLastK(k), Or(LastK(k)))
    /\ compiled' = NotCompiled
    /\ UNCHANGED <<modelVars, clientVars>>

\* expr.__toxml__() on the expression made last
Compile ==
    /\ Len(exprs) >= 1
    /\ compiled = NotCompiled
    /\ compiled' = <<[of |-> exprs[Len(exprs)]] @@ __toxml__(exprs[Len(exprs)])>>
    /\ UNCHANGED exprs
    /\ UNCHANGED <<modelVars, clientVars>>

NextFilter ==
    \/ NewComparison
    \/ NewNot
    \/ NewAnd
    \/ NewOr
    \/ Compile

SpecFilter == InitFilter /\ [][NextFilter]_vars

----------------------------------------------------------------------------
(* Properties of the compiler *)

RECURSIVE AllScalar(_)
AllScalar(expr) ==
    IF expr.cls = "AttributeComparison"
    THEN expr.prop_value.kind \in {"str", "int", "float", "bool"}
    ELSE \A k \in DOMAIN expr.operands : AllScalar(expr.operands[k])

\* the text each value of Leaves is expected to be written as
ExpectedLeafText(value) ==
    CASE value = PyStr(<<"x">>) -> <<"x">>
      [] value = PyInt(789) -> <<"7", "8", "9">>
      [] value = PyBool(TRUE) -> <<"t", "r", "u", "e">>
      [] value = PyFloat(15) -> <<"1", ".", "5">>
      [] OTHER -> <<"?">>

RECURSIVE SameShape(_, _)
SameShape(expr, x) ==
    IF expr.cls = "AttributeComparison"
    THEN /\ x.tag = expr.prop_name
         /\ x.attrib = {<<"type", <<expr.operator>> >>}
                       \cup (IF expr.ignoreCase
                             THEN {<<"ignoreCase", <<"t", "r", "u", "e">> >>} ELSE {})
         /\ x.text = PyStr(ExpectedLeafText(expr.prop_value))
         /\ x.children = <<>>
    ELSE /\ expr.cls \in {"Not", "And", "Or"}
         /\ x.tag = expr.cls
         /\ x.attrib = {}
         /\ x.text = PyNone
         /\ expr.cls = "Not" => Len(expr.operands) = 1
         /\ Len(x.children) = Len(expr.operands)
         /\ \A k \in DOMAIN expr.operands : SameShape(expr.operands[k], x.children[k])

\* C7: compiling an expression whose values are scalars yields a tree of the
\* same shape: a comparison becomes an element tagged with the property name,
\* attribute type = operator, attribute ignoreCase="true" exactly when the flag
\* is set, text = the encoded value; Not/And/Or become an element tagged with
\* the class name holding the compiled operands, same count and order. The
\* expression compiled is the caller's expression, unchanged.
C7_CompiledShape ==
    compiled # NotCompiled =>
        /\ compiled[1].of = exprs[Len(exprs)]
        /\ AllScalar(compiled[1].of) =>
              /\ compiled[1].exc = ""
              /\ SameShape(compiled[1].of, compiled[1].val)

\* compiled: a Not over an And/Or of two or more operands, with a leaf that
\* ignores case and one that does not
C7_Witness ==
    /\ compiled # NotCompiled
    /\ compiled[1].exc = ""
    /\ compiled[1].of.cls = "Not"
    /\ LET inner == compiled[1].val.children[1]
       IN /\ inner.tag \in {"And", "Or"}
          /\ Len(inner.children) >= 2
          /\ \E k \in DOMAIN inner.children : HasAttrib(inner.children[k], "ignoreCase")
          /\ \E k \in DOMAIN inner.children :
                /\ inner.children[k].tag \notin {"Not", "And", "Or"}
                /\ ~HasAttrib(inner.children[k], "ignoreCase")

----------------------------------------------------------------------------
(* DynamicClient *)

\* _Headers
_Headers_accept == <<"accept", <<"a","p","p","l","i","c","a","t","i","o","n","/","x","m","l">> >>

_Headers_content_type ==
    <<"content-type", <<"a","p","p","l","i","c","a","t","i","o","n","/","x","m","l">> >>

\* DynamicClient.__init__(host_name, protocol, session)
Client == [host_name |-> "da", protocol |-> "https"]

\* DynamicClient._create_url
_create_url(self, service_uri, op_uri) ==
    <<self.protocol, "://", self.host_name, ":8581/rest/", service_uri, "/", op_uri>>

\* xml.etree.ElementTree.tostring(element): the tree below the element, written out
RECURSIVE tostring(_, _)
tostring(h, n) ==
    [tag |-> h[n].tag, attrib |-> h[n].attrib, text |-> h[n].text,
     children |-> [k \in DOMAIN h[n].children |-> tostring(h, h[n].children[k])]]

\* the spellings of a header name a server may use
HeaderName(spelling) ==
    CASE spelling = "Content-Type" -> <<"C","o","n","t","e","n","t","-","T","y","p","e">>
      [] spelling = "content-type" -> <<"c","o","n","t","e","n","t","-","t","y","p","e">>
      [] spelling = "CONTENT-TYPE" -> <<"C","O","N","T","E","N","T","-","T","Y","P","E">>
      [] spelling = "Server" -> <<"S","e","r","v","e","r">>

\* response.headers[key]: requests keeps the headers in a case-insensitive
\* mapping; a missing key raises KeyError. [exc, val]
HeadersGetItem(headers, key) ==
    LET hits == {p \in headers : lower(p[1]) = lower(key)}
    IN IF hits = {} THEN [exc |-> "KeyError", val |-> <<>>]
       ELSE [exc |-> "", val |-> (CHOOSE p \in hits : TRUE)[2]]

\* response.raise_for_status(): requests raises HTTPError for 4xx and 5xx
raise_for_status(resp) ==
    IF 400 <= resp.status_code /\ resp.status_code < 600 THEN "HTTPError" ELSE ""

\* DynamicClient._parse_xml_response_data: [exc, parsed]
_parse_xml_response_data(resp) ==
    LET got == HeadersGetItem(resp.headers, HeaderName(_Headers_content_type[1]))
        response_content_type == casefold(got.val)
        expected_content_type == _Headers_content_type[2]
    IN IF got.exc # "" THEN [exc |-> got.exc, parsed |-> FALSE]
       ELSE IF /\ response_content_type # expected_content_type
               /\ ~startswith(response_content_type, expected_content_type \o <<";">>)
       THEN [exc |-> "PmdaInfrastructureError", parsed |-> FALSE]
       ELSE IF ~resp.wellformed
       THEN [exc |-> "ParseError", parsed |-> FALSE]
       ELSE [exc |-> "", parsed |-> TRUE]

AppXml == <<"a","p","p","l","i","c","a","t","i","o","n","/","x","m","l">>

\* the Content-Type values a server may send
ContentTypes ==
    { AppXml,
      <<"A","P","P","L","I","C","A","T","I","O","N","/","X","M","L">>,
      AppXml \o <<";","c","h","a","r","s","e","t","=","u","t","f","-","8">>,
      <<"A","p","p","l","i","c","a","t","i","o","n","/","X","m","l",";"," ","q">>,
      AppXml \o <<" ",";","q">>,
      AppXml \o <<"x">>,
      <<"a","p","p","l","i","c","a","t","i","o","n","/","x","m">>,
      <<"t","e","x","t","/","p","l","a","i","n">>,
      <<"t","e","x","t","/","x","m","l">>,
      <<>> }

HeaderSets ==
    { {}, {<<HeaderName("Server"), <<"d","a">> >>} }
    \cup { {<<HeaderName(n), v>>} : n \in {"Content-Type", "content-type", "CONTENT-TYPE"},
                                    v \in ContentTypes }

StatusCodes == {200, 204, 304, 404, 500}

\* what the transport may answer
Responses ==
    [status_code : StatusCodes, headers : HeaderSets,
     children : 0..MaxResponseChildren, wellformed : BOOLEAN]

ServiceUris == {"profiles", "devices/manageable"}

\* the filters and the model a caller passes
Filters ==
    { AttributeComparison("A.B", "CONTAINS", PyStr(<<"x">>), FALSE),
      Not(AttributeComparison("E.F", "EQUAL", PyBool(TRUE), TRUE)),
      AttributeComparison("G.H", "EQUAL", PyNone, FALSE) }

ClientDocument == ParsedDocument(<<FooSimple, BarSimple>>)

InitClient ==
    /\ InitClientVars
    /\ InitFilterVars
    /\ heap = ClientDocument
    /\ pre = heap
    /\ last = Op("", PyNone, "", PyNone, "", PyNone)
    /\ ops = 0

Request(method, url, headers, data) ==
    [method |-> method, url |-> url, headers |-> headers, data |-> data]

\* filtered_get_list up to and including session.post(...). A client keeps
\* nothing from one call to the next (host_name, protocol and session are set
\* once), so a behaviour follows one call from the idle client.
FilteredGetList_Post ==
    /\ pc = "idle"
    /\ \E service_uri \in ServiceUris, filter \in Filters :
          LET url == _create_url(Client, service_uri, "filtered")
              headers == {_Headers_accept, _Headers_content_type}
              data == _filter_select(filter)
          IN /\ call' = [op |-> "filtered_get_list", service_uri |-> service_uri,
                         resource_id |-> ""]
             /\ IF data.exc # ""
                THEN /\ sent' = <<>>
                     /\ response' = NoResponse
                     /\ outcome' = data.exc
                     /\ pc' = "done"
                ELSE /\ sent' = <<Request("POST", url, headers, data.val)>>
                     /\ response' \in Responses
                     /\ outcome' = ""
                     /\ pc' = "filtered_posted"
    /\ document' = NoDocument
    /\ wrapped' = 0
    /\ UNCHANGED <<modelVars, filterVars>>

\* response.raise_for_status() in filtered_get_list
FilteredGetList_RaiseForStatus ==
    /\ pc = "filtered_posted"
    /\ outcome' = raise_for_status(response)
    /\ pc' = IF raise_for_status(response) # "" THEN "done" ELSE "filtered_checked"
    /\ UNCHANGED <<call, response, sent, document, wrapped>>
    /\ UNCHANGED <<modelVars, filterVars>>

\* self._parse_xml_response_data(response) and the return of the generator
FilteredGetList_Parse ==
    /\ pc = "filtered_checked"
    /\ LET r == _parse_xml_response_data(response)
       IN /\ outcome' = r.exc
          /\ document' = IF r.parsed THEN <<response.children>> ELSE NoDocument
          /\ pc' = IF r.exc # "" THEN "done" ELSE "returned"
    /\ UNCHANGED <<call, response, sent, wrapped>>
    /\ UNCHANGED <<modelVars, filterVars>>

\* next() on the generator returned: DynamicModel(child) for the next child
FilteredGetList_Next ==
    /\ pc = "returned"
    /\ wrapped < document[1]
    /\ wrapped' = wrapped + 1
    /\ UNCHANGED <<pc, call, response, sent, outcome, document>>
    /\ UNCHANGED <<modelVars, filterVars>>

\* update up to and including session.put(...)
Update_Put ==
    /\ pc = "idle"
    /\ \E service_uri \in ServiceUris, resource_id \in {"1234567"}, n \in Held :
          LET updated == DynamicModel(1, n)
              url == _create_url(Client, service_uri, "") \o <<"/", resource_id>>
              headers == {_Headers_content_type}
              data == tostring(heap, updated.doc)
          IN /\ call' = [op |-> "update", service_uri |-> service_uri,
                         resource_id |-> resource_id]
             /\ sent' = <<Request("PUT", url, headers, data)>>
    /\ response' \in Responses
    /\ outcome' = ""
    /\ pc' = "update_put"
    /\ document' = NoDocument
    /\ wrapped' = 0
    /\ UNCHANGED <<modelVars, filterVars>>

\* response.raise_for_status() in update, and the return
Update_RaiseForStatus ==
    /\ pc = "update_put"
    /\ outcome' = raise_for_status(response)
    /\ pc' = "done"
    /\ UNCHANGED <<call, response, sent, document, wrapped>>
    /\ UNCHANGED <<modelVars, filterVars>>

NextClient ==
    \/ FilteredGetList_Post
    \/ FilteredGetList_RaiseForStatus
    \/ FilteredGetList_Parse
    \/ FilteredGetList_Next
    \/ Update_Put
    \/ Update_RaiseForStatus

SpecClient == InitClient /\ [][NextClient]_vars

----------------------------------------------------------------------------
(* Properties of DynamicClient *)

ContentTypeName == <<"c","o","n","t","e","n","t","-","t","y","p","e">>

\* the response carries a Content-Type that is application/xml or begins with
\* application/xml; , name and value compared without regard to case
Acceptable(resp) ==
    \E p \in resp.headers :
        /\ lower(p[1]) = ContentTypeName
        /\ \/ lower(p[2]) = AppXml
           \/ /\ Len(p[2]) > Len(AppXml)
              /\ lower(SubSeq(p[2], 1, Len(AppXml))) = AppXml
              /\ p[2][Len(AppXml) + 1] = ";"

\* filtered_get_list has gone past the status check of a 2xx response
PastStatusCheck ==
    /\ call.op = "filtered_get_list"
    /\ pc \in {"done", "returned"}
    /\ sent # <<>>
    /\ response.status_code \in 200..299

\* C5: a filtered_get_list whose response has a success status fails with
\* PmdaInfrastructureError when the Content-Type is neither application/xml nor
\* begins with application/xml; (any other value, or none at all), with the
\* body unparsed and no child wrapped; with an acceptable Content-Type it does
\* not fail with PmdaInfrastructureError.
C5_ContentTypeChecked ==
    PastStatusCheck =>
        IF Acceptable(response)
        THEN outcome # "PmdaInfrastructureError"
        ELSE /\ outcome = "PmdaInfrastructureError"
             /\ document = NoDocument
             /\ wrapped = 0

----------------------------------------------------------------------------
(* _scalar_to_str on its own, through __setattr__ and through a comparison *)

\* the values a caller may hand over: every scalar type, and values of none
EncodeValues ==
    {PyBool(TRUE), PyBool(FALSE)}
    \cup {PyInt(i) : i \in -MaxInt..MaxInt}
    \cup {PyFloat(t) : t \in -MaxInt..MaxInt}
    \cup {PyStr(<<>>), PyStr(<<"x">>), PyStr(<<"T","r","u","e">>), PyStr(<<"1">>),
          PyStr(<<"A","b">>)}
    \cup {PyNone, PyOther, PyTuple(<<>>), DynamicModel(2, 1)}

InitEncode ==
    /\ heap = <<Element("P", {<<"version", Version100>>})>>
    /\ pre = heap
    /\ last = Op("", PyNone, "", PyNone, "", PyNone)
    /\ ops = 0
    /\ InitFilterVars
    /\ InitClientVars

\* _scalar_to_str(value). The function keeps nothing between calls: a
\* behaviour is one call, of any of the three kinds, on one value.
Encode ==
    /\ last.op = ""
    /\ \E value \in EncodeValues :
          LET r == _scalar_to_str(value)
          IN last' = Op("Encode", PyNone, "", value, r.exc,
                        IF r.exc = "" THEN PyStr(r.val) ELSE PyNone)
    /\ pre' = heap
    /\ compiled' = NotCompiled
    /\ UNCHANGED <<heap, ops, exprs, clientVars>>

\* setattr(model, name, value) on the model of the new document
EncodeSet ==
    /\ last.op = ""
    /\ \E name \in FieldNames, value \in EncodeValues :
          LET self == DynamicModel(1, 1)
              r == __setattr__(heap, self, name, value)
          IN /\ heap' = r.heap
             /\ last' = Op("Set", self, name, value, r.exc, PyNone)
    /\ pre' = heap
    /\ compiled' = NotCompiled
    /\ UNCHANGED <<ops, exprs, clientVars>>

\* AttributeComparison(prop_name, operator, value, ignoreCase).__toxml__()
EncodeLeaf ==
    /\ last.op = ""
    /\ \E value \in EncodeValues, ignoreCase \in BOOLEAN :
          LET leaf == AttributeComparison("A.B", "EQUAL", value, ignoreCase)
              r == __toxml__(leaf)
          IN /\ compiled' = <<[of |-> leaf] @@ r>>
             /\ last' = Op("Leaf", PyNone, "", value, r.exc, PyNone)
    /\ pre' = heap
    /\ UNCHANGED <<heap, ops, exprs, clientVars>>

NextEncode ==
    \/ Encode
    \/ EncodeSet
    \/ EncodeLeaf

SpecEncode == InitEncode /\ [][NextEncode]_vars

----------------------------------------------------------------------------
(* Properties of _scalar_to_str *)

\* the number a sequence of decimal digits writes
RECURSIVE DecimalValue(_)
DecimalValue(s) ==
    IF s = <<>> THEN 0
    ELSE 10 * DecimalValue(SubSeq(s, 1, Len(s) - 1))
         + ((CHOOSE k \in DOMAIN Digits : Digits[k] = s[Len(s)]) - 1)

\* s is the decimal numeral of the natural number n: digits only, no leading 0
IsNumeral(s, n) ==
    /\ Len(s) >= 1
    /\ \A k \in DOMAIN s : \E d \in DOMAIN Digits : Digits[d] = s[k]
    /\ Len(s) > 1 => s[1] # "0"
    /\ DecimalValue(s) = n

\* s is the decimal numeral of the integer i: a minus sign for a negative one
IsIntegerText(s, i) ==
    IF i < 0
    THEN /\ Len(s) >= 2
         /\ s[1] = "-"
         /\ IsNumeral(Tail(s), -i)
    ELSE IsNumeral(s, i)

\* s writes the real number of t tenths: integer part, a point, one digit
IsRealText(s, t) ==
    LET a == IF t < 0 THEN -t ELSE t
        body == IF t < 0 THEN Tail(s) ELSE s
    IN /\ Len(s) >= (IF t < 0 THEN 4 ELSE 3)
       /\ t < 0 => s[1] = "-"
       /\ body[Len(body) - 1] = "."
       /\ IsNumeral(SubSeq(body, 1, Len(body) - 2), a \div 10)
       /\ IsNumeral(<<body[Len(body)]>>, a % 10)

\* text is the encoding of the scalar value
IsEncoding(value, text) ==
    CASE value.kind = "bool" -> text = (IF value.i = 1 THEN <<"t","r","u","e">>
                                        ELSE <<"f","a","l","s","e">>)
      [] value.kind = "int" -> IsIntegerText(text, value.i)
      [] value.kind = "float" -> IsRealText(text, value.i)
      [] value.kind = "str" -> text = value.s
      [] OTHER -> FALSE

IsScalar(value) == value.kind \in {"str", "int", "float", "bool"}

\* C11: encode(true) is "true" and encode(false) is "false"; a text, integer or
\* real value encodes to its text or decimal form; any other value makes encode
\* fail with TypeError. Set stores that encoding as the text of the new child
\* and a compiled comparison carries it as its text; both fail with TypeError on
\* a value that is neither a scalar nor (for Set) a model.
C11_Encoding ==
    /\ last.op = "Encode" =>
          IF IsScalar(last.value)
          THEN /\ last.exc = ""
               /\ last.result.kind = "str"
               /\ IsEncoding(last.value, last.result.s)
          ELSE last.exc = "TypeError"
    /\ (last.op = "Set" /\ last.name \notin SpecialNames) =>
          IF IsScalar(last.value)
          THEN LET kids == heap[last.self.doc].children
                   c == heap[kids[Len(kids)]]
               IN /\ last.exc = ""
                  /\ Len(kids) >= 1
                  /\ c.tag = last.name
                  /\ c.text.kind = "str"
                  /\ IsEncoding(last.value, c.text.s)
          ELSE last.value.kind # "model" => last.exc = "TypeError"
    /\ last.op = "Leaf" =>
          IF IsScalar(last.value)
          THEN /\ last.exc = ""
               /\ compiled[1].exc = ""
               /\ compiled[1].val.text.kind = "str"
               /\ IsEncoding(last.value, compiled[1].val.text.s)
          ELSE last.exc = "TypeError"

\* True was stored by Set as the text "true" of a new child
C11_Witness ==
    /\ last.op = "Set"
    /\ last.exc = ""
    /\ last.value = PyBool(TRUE)
    /\ Len(heap[1].children) = 1
    /\ heap[heap[1].children[1]].text = PyStr(<<"t","r","u","e">>)

----------------------------------------------------------------------------
(* The transport calls of DynamicClient *)

\* the call has come to its end: by an exception, by the return of update, or
\* by the return of filtered_get_list's generator
Finished == pc \in {"done", "returned"}

\* C12: a filtered_get_list that ends in success, in a status failure or in a
\* Content-Type failure has issued exactly one transport call, a POST, and an
\* update exactly one, a PUT; there is never a second call. In
\* filtered_get_list a response whose status is not a success status fails
\* with the transport's error whatever its Content-Type, with nothing parsed;
\* update reads nothing of the response but its status.
C12_OneCallInOrder ==
    /\ Len(sent) <= 1
    /\ (call.op = "filtered_get_list" /\ Finished /\ outcome # "TypeError")
          => /\ Len(sent) = 1
             /\ sent[1].method = "POST"
    /\ (call.op = "update" /\ Finished)
          => /\ Len(sent) = 1
             /\ sent[1].method = "PUT"
             /\ outcome \in {"", "HTTPError"}
             /\ document = NoDocument
             /\ wrapped = 0
    /\ ( /\ call.op = "filtered_get_list"
         /\ Finished
         /\ sent # <<>>
         /\ response.status_code \notin 200..299 )
          => /\ outcome = "HTTPError"
             /\ document = NoDocument
             /\ wrapped = 0

----------------------------------------------------------------------------
(* Models made by dynamic_model and then changed by setattr and delattr *)

\* the fields of the first model: no other model exists yet to nest
FirstAttributes ==
    {a \in SeqsUpTo([name : FieldNames, value : {PyStr(<<"x">>)}], MaxFields) :
        \A j, k \in DOMAIN a : j # k => a[j].name # a[k].name}

\* The state after dynamic_model("P", "1.0.0", **attributes), alone or followed
\* by dynamic_model("Foo", "1.0.0"), a model to nest.
InitReplace ==
    /\ \E attributes \in FirstAttributes, nested \in BOOLEAN :
          LET first == dynamic_model(<<>>, "P", PyStr(Version100), attributes, 1)
              second == dynamic_model(first.heap, "Foo", PyStr(Version100), <<>>, 2)
          IN /\ Len(second.heap) <= MaxNodes
             /\ heap = IF nested THEN second.heap ELSE first.heap
    /\ pre = heap
    /\ last = Op("", PyNone, "", PyNone, "", PyNone)
    /\ ops = 0
    /\ InitFilterVars
    /\ InitClientVars

NextReplace ==
    \/ Setattr
    \/ Delattr

SpecReplace == InitReplace /\ [][NextReplace]_vars

----------------------------------------------------------------------------
(* Properties of models made by dynamic_model *)

\* the tags in use
Tags == {heap[n].tag : n \in Nodes} \cup Names

\* every element has at most one direct child of each tag
OneChildPerTag ==
    \A n \in Nodes : \A tag \in Tags : Cardinality(Tagged(heap, n, tag)) <= 1

\* after the successful Set last made, the element has exactly one direct child
\* tagged with the name, and it is the value stored: the node of the nested
\* model, or a new element holding the encoded text; the child that held the
\* old value is gone
StoredByLastSet ==
    LET n == last.self.doc
        name == last.name
        hits == Tagged(heap, n, name)
        c == heap[n].children[Min(hits)]
        old == Tagged(pre, n, name)
    IN /\ Cardinality(hits) = 1
       /\ IF last.value.kind = "model"
          THEN c = last.value.doc
          ELSE /\ c > Len(pre)
               /\ heap[c].tag = name
               /\ heap[c].text = PyStr(_scalar_to_str(last.value).val)
               /\ ~HasAttrib(heap[c], "version")
               /\ heap[c].children = <<>>
       /\ \A k \in old : pre[n].children[k] # c
                            => pre[n].children[k] \notin Range(heap[n].children)

\* C13 as stated: for a model made by build and changed only by Set and Delete,
\* whatever the names and values and whether the calls fail, every element has
\* at most one direct child per tag, and after any successful Set(name, value)
\* the element has exactly one direct child tagged name, the value just stored.
C13_ReplaceAnyName ==
    /\ OneChildPerTag
    /\ (last.op = "Set" /\ last.exc = "") => StoredByLastSet

\* C13 as amended: the same, the second part for every name other than version
\* (which is stored as the attribute of the element, not as a child; IsAlso is
\* never set with success).
C13_Replace ==
    /\ OneChildPerTag
    /\ (last.op = "Set" /\ last.exc = "" /\ last.name \notin SpecialNames)
          => StoredByLastSet

\* a successful Set replaced a simple child by the node of a nested model
C13_Witness ==
    /\ last.op = "Set"
    /\ last.exc = ""
    /\ last.value.kind = "model"
    /\ last.value.doc # last.self.doc
    /\ Cardinality(Tagged(pre, last.self.doc, last.name)) = 1
    /\ ~HasAttrib(pre[pre[last.self.doc].children[Min(Tagged(pre, last.self.doc, last.name))]],
                  "version")
    /\ heap[last.self.doc].children # pre[last.self.doc].children

====
